---------------------------- MODULE Spec2Model ----------------------------
(***************************************************************************)
(* Model of the infection simulation of src/main.py: scenario placement    *)
(* (generate_nodes), the static neighbour graph                            *)
(* (build_neighbor_lists_from_connections), the transmission probability   *)
(* (infection_probability) and the tick (update_infections).               *)
(*                                                                         *)
(* Numbers.  Python floats are replaced by exact integers on a grid:       *)
(*   - latitudes / longitudes are in hundredths of a degree,               *)
(*   - screen coordinates and distances are in 1/PixelUnit of a pixel,     *)
(*   - probabilities and rng.random() values are in units of               *)
(*     1 / ProbScale, where ProbScale = 100 * Radius, so that every        *)
(*     constant of infection_probability (0.05, 0.12, 0.4, 0.95) and the   *)
(*     term 0.4 * (1 - d / R) are integers.                                *)
(* Node ids are zero-based as in the code: a node list is a function on    *)
(* 0 .. n-1.  Python lists that are only appended to and iterated are      *)
(* sequences.                                                              *)
(***************************************************************************)
EXTENDS Integers, Sequences, FiniteSets, TLC

VARIABLES
    pc,            \* position of main(): "start", "placed", "built", "running", "failed"
    config,        \* inputs of a run: image size, land oracle
    nodes,         \* List[Node]: function 0..n-1 -> [id, x, y, device_type, state]
    connections,   \* List[Connection]: sequence of [source, target]
    neighbors,     \* List[List[int]]: function 0..n-1 -> sequence of ids
    patient_zero,  \* index chosen by rng.randrange, -1 before it is chosen
    ticks,         \* number of calls of update_infections so far
    draw_log,      \* draws of the last tick, one record per source that sampled
    rng,           \* random stream of a seeded run: [key, pos]
    other,         \* the second run of a pair of seeded runs
    probe,         \* one call site of infection_probability and its inputs
    placement,     \* what generate_nodes did besides returning the nodes:
                   \* the error raised, the jitter attempts made for each
                   \* specification, the specifications it printed a line for
    ui             \* upgrade_state, upgrade_points and active_panel of main()

vars == << pc, config, nodes, connections, neighbors, patient_zero, ticks,
           draw_log, rng, other, probe, placement, ui >>

-----------------------------------------------------------------------------
(* Bounds of the model *)

PixelUnit == 10          \* grid points per pixel
MaxProbePixels == 130    \* probed distances go from 0 to this many pixels
MaxTicks == 4            \* ticks taken in one run

(* Configuration constants of main.py *)

SEED == 42
WINDOW_WIDTH == 1280
WINDOW_HEIGHT == 720
NODE_COUNT == 10
CONNECTION_RADIUS == 120
MAX_INFECTION_ATTEMPTS == 4
PLACEMENT_ATTEMPTS == 40
UPGRADE_STARTING_POINTS == 10

Min(a, b) == IF a <= b THEN a ELSE b
Max(a, b) == IF a >= b THEN a ELSE b

MENU_HEIGHT == Max(24, (WINDOW_HEIGHT * 3) \div 100)

Radius == CONNECTION_RADIUS * PixelUnit
ProbScale == 100 * Radius

DeviceTypes == {"phone", "computer", "iot", "server"}
NodeStates == {"secure", "vulnerable", "infected"}

-----------------------------------------------------------------------------
(* infection_probability *)

light_devices == {"phone", "iot"}
heavy_devices == {"computer", "server"}

\* 100 * Radius * (0.4 * max(0.0, 1.0 - distance / CONNECTION_RADIUS))
DistanceBonus(distance) == 40 * Max(0, Radius - distance)

NoBaseChanceProbability(source_type, target_type, distance) ==
    LET base0 == 0
        base1 == IF source_type = target_type
                 THEN base0 + 12 * Radius
                 ELSE IF \/ (source_type \in light_devices /\ target_type \in light_devices)
                         \/ (source_type \in heavy_devices /\ target_type \in heavy_devices)
                      THEN base0 + 5 * Radius
                      ELSE base0
        base2 == base1 + DistanceBonus(distance)
    IN  Min(95 * Radius, base2)

UnclampedDistanceProbability(source_type, target_type, distance) ==
    LET base0 == 5 * Radius
        base1 == IF source_type = target_type
                 THEN base0 + 12 * Radius
                 ELSE IF \/ (source_type \in light_devices /\ target_type \in light_devices)
                         \/ (source_type \in heavy_devices /\ target_type \in heavy_devices)
                      THEN base0 + 5 * Radius
                      ELSE base0
        base2 == base1 + 40 * (Radius - distance)
    IN  Min(95 * Radius, base2)

SourceOnlyClassProbability(source_type, target_type, distance) ==
    LET base0 == 5 * Radius
        base1 == IF source_type = target_type
                 THEN base0 + 12 * Radius
                 ELSE IF \/ (source_type \in light_devices /\ target_type \in light_devices)
                         \/ source_type \in heavy_devices
                      THEN base0 + 5 * Radius
                      ELSE base0
        base2 == base1 + DistanceBonus(distance)
    IN  Min(95 * Radius, base2)

SwappedBonusProbability(source_type, target_type, distance) ==
    LET base0 == 5 * Radius
        base1 == IF source_type = target_type
                 THEN base0 + 5 * Radius
                 ELSE IF \/ (source_type \in light_devices /\ target_type \in light_devices)
                         \/ (source_type \in heavy_devices /\ target_type \in heavy_devices)
                      THEN base0 + 12 * Radius
                      ELSE base0
        base2 == base1 + DistanceBonus(distance)
    IN  Min(95 * Radius, base2)

infection_probability(source_type, target_type, distance) ==
    LET base0 == 5 * Radius
        base1 == IF source_type = target_type
                 THEN base0 + 12 * Radius
                 ELSE IF \/ (source_type \in light_devices /\ target_type \in light_devices)
                         \/ (source_type \in heavy_devices /\ target_type \in heavy_devices)
                      THEN base0 + 5 * Radius
                      ELSE base0
        base2 == base1 + DistanceBonus(distance)
    IN  Min(95 * Radius, base2)

-----------------------------------------------------------------------------
(* Scenario tables (hundredths of a degree) *)

SCENARIO_NODE_SPECS == <<
    [device_type |-> "phone",    latitude |-> 4042, longitude |-> -370,  lat_jitter |-> 25, lon_jitter |-> 35],
    [device_type |-> "iot",      latitude |-> 4139, longitude |-> 217,   lat_jitter |-> 25, lon_jitter |-> 35],
    [device_type |-> "computer", latitude |-> 3947, longitude |-> -38,   lat_jitter |-> 25, lon_jitter |-> 35],
    [device_type |-> "iot",      latitude |-> 3739, longitude |-> -598,  lat_jitter |-> 25, lon_jitter |-> 35],
    [device_type |-> "computer", latitude |-> 4326, longitude |-> -294,  lat_jitter |-> 25, lon_jitter |-> 35],
    [device_type |-> "server",   latitude |-> 3872, longitude |-> -914,  lat_jitter |-> 25, lon_jitter |-> 35],
    [device_type |-> "server",   latitude |-> 5011, longitude |-> 868,   lat_jitter |-> 30, lon_jitter |-> 30],
    [device_type |-> "server",   latitude |-> 5335, longitude |-> -626,  lat_jitter |-> 30, lon_jitter |-> 30],
    [device_type |-> "computer", latitude |-> 4071, longitude |-> -7401, lat_jitter |-> 30, lon_jitter |-> 30],
    [device_type |-> "server",   latitude |-> 3568, longitude |-> 13965, lat_jitter |-> 30, lon_jitter |-> 30] >>

SCENARIO_CONNECTION_SPECS == <<
    [source |-> 0, target |-> 1], [source |-> 0, target |-> 2],
    [source |-> 1, target |-> 3], [source |-> 1, target |-> 5],
    [source |-> 2, target |-> 5], [source |-> 2, target |-> 6],
    [source |-> 3, target |-> 4], [source |-> 3, target |-> 5],
    [source |-> 4, target |-> 5], [source |-> 5, target |-> 6],
    [source |-> 5, target |-> 7], [source |-> 6, target |-> 8],
    [source |-> 6, target |-> 9], [source |-> 7, target |-> 8],
    [source |-> 8, target |-> 9] >>

-----------------------------------------------------------------------------
(* Projection: main() lines 913-931 and Projection.to_screen *)

\* round(v / 2) for an integer v >= 0 (Python rounds halves to even)
RoundHalf(v) ==
    IF v % 2 = 0 THEN v \div 2
    ELSE IF (v \div 2) % 2 = 0 THEN v \div 2 ELSE (v \div 2) + 1

\* image = <<map_width, map_height>> of the background image
MakeProjection(image) ==
    LET map_width == image[1]
        map_height == image[2]
        usable_height == WINDOW_HEIGHT - MENU_HEIGHT - 40
        by_width == WINDOW_WIDTH * map_height <= usable_height * map_width
        scaled_w == IF by_width THEN WINDOW_WIDTH
                    ELSE (map_width * usable_height) \div map_height
        scaled_h == IF by_width THEN (map_height * WINDOW_WIDTH) \div map_width
                    ELSE usable_height
    IN  [ width    |-> IF by_width THEN WINDOW_WIDTH * PixelUnit
                       ELSE (map_width * usable_height * PixelUnit) \div map_height,
          height   |-> IF by_width THEN (map_height * WINDOW_WIDTH * PixelUnit) \div map_width
                       ELSE usable_height * PixelUnit,
          offset_x |-> RoundHalf(WINDOW_WIDTH - scaled_w),
          offset_y |-> RoundHalf(2 * MENU_HEIGHT + (WINDOW_HEIGHT - MENU_HEIGHT - scaled_h)) ]

to_screen(projection, lon, lat) ==
    << ((lon + 18000) * projection.width) \div 36000 + projection.offset_x * PixelUnit,
       ((9000 - lat) * projection.height) \div 18000 + projection.offset_y * PixelUnit >>

-----------------------------------------------------------------------------
(* math.hypot on the grid: the integer part of the Euclidean distance *)

\* Heron's iteration from an estimate that is not below the root: the
\* estimates fall until they reach the integer part of the square root of n
RECURSIVE SqrtSearch(_, _)
SqrtSearch(n, estimate) ==
    LET better == (estimate + n \div estimate) \div 2
    IN  IF better >= estimate THEN estimate ELSE SqrtSearch(n, better)

hypot(dx, dy) ==
    LET ax == IF dx < 0 THEN -dx ELSE dx
        ay == IF dy < 0 THEN -dy ELSE dy
    IN  IF ax + ay = 0 THEN 0 ELSE SqrtSearch(ax * ax + ay * ay, ax + ay)

-----------------------------------------------------------------------------
(* generate_nodes *)

\* The worlds a run is tried with.  A world fixes what the map image shows
\* (is_land_image) and what the land polygons cover (is_on_land); the
\* classifier handed to generate_nodes is their disjunction (line 320).
LandOracles == {"all", "none", "stripes"}

is_land_image(oracle, lon, lat) ==
    CASE oracle = "all"     -> TRUE
      [] oracle = "none"    -> FALSE
      [] oracle = "stripes" -> (lon + lat) % 3 = 0
      [] oracle = "coast"   -> FALSE

is_on_land(oracle, lon, lat) == oracle = "coast" /\ lon % 2 = 0

is_land(oracle, lon, lat) ==
    is_land_image(oracle, lon, lat) \/ is_on_land(oracle, lon, lat)

\* rng.uniform(lo, hi) for the draw u / UniformDen of rng.random()
UniformDen == 1
uniform(lo, hi, u) == lo + ((hi - lo) * u) \div UniformDen

\* The jitter draws a run is tried with: for node idx, attempt k, the pair
\* of rng.random() values behind the two rng.uniform calls.
JitterTape(a, b) ==
    [idx \in 0 .. NODE_COUNT - 1 |->
        [k \in 1 .. PLACEMENT_ATTEMPTS |->
            << (a + idx + k) % (UniformDen + 1), (b + idx * k) % (UniformDen + 1) >>]]

JitterTapes == { JitterTape(a, b) : a \in 0 .. UniformDen, b \in 0 .. UniformDen }

\* the jittered point of attempt k for one specification (lines 487-492)
Jittered(spec, tape, k) ==
    [ lat |-> uniform(spec.latitude - spec.lat_jitter,
                      spec.latitude + spec.lat_jitter, tape[k][1]),
      lon |-> uniform(spec.longitude - spec.lon_jitter,
                      spec.longitude + spec.lon_jitter, tape[k][2]) ]

LastAcceptedAttempt(spec, oracle, tape) ==
    LET accepted == { k \in 1 .. PLACEMENT_ATTEMPTS :
                        LET point == Jittered(spec, tape, k)
                        IN  is_land(oracle, point.lon, point.lat) }
    IN  IF accepted = {} THEN 0
        ELSE CHOOSE k \in accepted : \A j \in accepted : k >= j

\* the attempt at which the loop of line 486 breaks, 0 if it runs out
AcceptedAttempt(spec, oracle, tape) ==
    LET accepted == { k \in 1 .. PLACEMENT_ATTEMPTS :
                        LET point == Jittered(spec, tape, k)
                        IN  is_land(oracle, point.lon, point.lat) }
    IN  IF accepted = {} THEN 0
        ELSE CHOOSE k \in accepted : \A j \in accepted : k <= j

OneBasedPlaceNode(idx, spec, projection, oracle, tape) ==
    LET first == AcceptedAttempt(spec, oracle, tape)
        lat == IF first = 0 THEN spec.latitude ELSE Jittered(spec, tape, first).lat
        lon == IF first = 0 THEN spec.longitude ELSE Jittered(spec, tape, first).lon
        xy == to_screen(projection, lon, lat)
    IN  [ id |-> idx + 1, x |-> xy[1], y |-> xy[2], latitude |-> lat, longitude |-> lon,
          device_type |-> spec.device_type, state |-> "secure" ]

\* Body of the loop over SCENARIO_NODE_SPECS for one specification
PlaceNode(idx, spec, projection, oracle, tape) ==
    LET first == AcceptedAttempt(spec, oracle, tape)
        lat == IF first = 0 THEN spec.latitude ELSE Jittered(spec, tape, first).lat
        lon == IF first = 0 THEN spec.longitude ELSE Jittered(spec, tape, first).lon
        xy == to_screen(projection, lon, lat)
    IN  [ id |-> idx, x |-> xy[1], y |-> xy[2], latitude |-> lat, longitude |-> lon,
          device_type |-> spec.device_type, state |-> "secure" ]

generate_nodes(specs, projection, oracle, tapes) ==
    [ idx \in 0 .. Len(specs) - 1 |->
        PlaceNode(idx, specs[idx + 1], projection, oracle, tapes[idx]) ]

\* the number of passes of the loop of line 486 for one specification
PlacementTries(spec, oracle, tape) ==
    LET first == AcceptedAttempt(spec, oracle, tape)
    IN  IF first = 0 THEN PLACEMENT_ATTEMPTS ELSE first

SilentPlacement(spec, oracle, tape) == FALSE

\* the else branch of the loop prints its line (lines 496-498)
ForcedPlacement(spec, oracle, tape) ==
    /\ ~ is_land(oracle, spec.longitude, spec.latitude)
    /\ ~ is_on_land(oracle, spec.longitude, spec.latitude)
    /\ AcceptedAttempt(spec, oracle, tape) = 0

\* the test of line 476
NoMismatchCheck(spec_count, node_count) == FALSE

ConfigMismatch(spec_count, node_count) == spec_count # node_count

NoPlacement == [ error |-> FALSE, tries |-> << >>, flagged |-> << >> ]

\* the ValueError of lines 476-480
MismatchError == [ NoPlacement EXCEPT !.error = TRUE ]

\* the lines printed by the loop over the specifications, from idx on
RECURSIVE PrintedLines(_, _, _, _)
PrintedLines(specs, oracle, tapes, idx) ==
    IF idx >= Len(specs) THEN << >>
    ELSE (IF ForcedPlacement(specs[idx + 1], oracle, tapes[idx]) THEN << idx >> ELSE << >>)
         \o PrintedLines(specs, oracle, tapes, idx + 1)

\* the jittered points the loop of line 486 drew for one specification
JitterDraws(spec, oracle, tape) ==
    [ k \in 1 .. PlacementTries(spec, oracle, tape) |-> Jittered(spec, tape, k) ]

\* the jittered points of a call, one record per specification
PlacementDraws(specs, oracle, tapes) ==
    [ i \in 1 .. Len(specs) |->
        [ source |-> i - 1, points |-> JitterDraws(specs[i], oracle, tapes[i - 1]) ] ]

\* what a call of generate_nodes that returns has done
PlacementReport(specs, oracle, tapes) ==
    [ error |-> FALSE,
      tries |-> [ idx \in 0 .. Len(specs) - 1 |->
                    PlacementTries(specs[idx + 1], oracle, tapes[idx]) ],
      flagged |-> PrintedLines(specs, oracle, tapes, 0) ]

-----------------------------------------------------------------------------
(* build_connections and build_neighbor_lists_from_connections *)

\* the connections of the table that do not touch node 0
ConnectionsAwayFromFirst(specs) ==
    LET Away(spec) == spec.source # 0 /\ spec.target # 0
        kept == SelectSeq(specs, Away)
    IN  [ i \in 1 .. Len(kept) |-> [source |-> kept[i].source, target |-> kept[i].target] ]

build_connections(specs) ==
    [ i \in 1 .. Len(specs) |-> [source |-> specs[i].source, target |-> specs[i].target] ]

SeqToSet(s) == { s[i] : i \in 1 .. Len(s) }

\* sorted(S) for a finite set of integers
RECURSIVE sorted(_)
sorted(S) ==
    IF S = {} THEN << >>
    ELSE LET least == CHOOSE m \in S : \A e \in S : m <= e
         IN  << least >> \o sorted(S \ {least})

\* The loop over the connections (lines 549-551), from connection i on
RECURSIVE AppendConnections(_, _, _)
AppendConnections(lists, conns, i) ==
    IF i > Len(conns) THEN lists
    ELSE LET c == conns[i]
             with_target == [lists EXCEPT ![c.source] = Append(@, c.target)]
             with_source == [with_target EXCEPT ![c.target] = Append(@, c.source)]
         IN  AppendConnections(with_source, conns, i + 1)

RECURSIVE AppendForwardOnly(_, _, _)
AppendForwardOnly(lists, conns, i) ==
    IF i > Len(conns) THEN lists
    ELSE LET c == conns[i]
             with_target == [lists EXCEPT ![c.source] = Append(@, c.target)]
         IN  AppendForwardOnly(with_target, conns, i + 1)

OneWayNeighborLists(node_count, conns) ==
    LET appended == AppendForwardOnly([idx \in 0 .. node_count - 1 |-> << >>], conns, 1)
    IN  [ idx \in 0 .. node_count - 1 |-> sorted(SeqToSet(appended[idx])) ]

RawNeighborLists(node_count, conns) ==
    AppendConnections([idx \in 0 .. node_count - 1 |-> << >>], conns, 1)

SkipFirstNeighborLists(node_count, conns) ==
    LET appended == AppendConnections([idx \in 0 .. node_count - 1 |-> << >>], conns, 2)
    IN  [ idx \in 0 .. node_count - 1 |-> sorted(SeqToSet(appended[idx])) ]

build_neighbor_lists_from_connections(node_count, conns) ==
    LET appended == AppendConnections([idx \in 0 .. node_count - 1 |-> << >>], conns, 1)
    IN  [ idx \in 0 .. node_count - 1 |-> sorted(SeqToSet(appended[idx])) ]

-----------------------------------------------------------------------------
(* The random stream as seen by one tick.                                  *)
(* rng.sample(population, k) returns the elements at k distinct positions  *)
(* of the population, in any order; rng.random() returns a value in        *)
(* [0, 1), here one of RandomValues (in units of 1 / ProbScale).           *)

\* rng.random() = p / 100 for the percents a run is tried with
RandomValues(percents) == { p * Radius : p \in percents }
NoDraw == -1

Injective(f) == \A i, j \in DOMAIN f : i # j => f[i] # f[j]

PickPositions(population, positions) ==
    [ j \in 1 .. Len(positions) |-> population[positions[j]] ]

\* every result rng.sample(population, k) can return
Samples(population, k) ==
    { PickPositions(population, f) :
        f \in { g \in [1 .. k -> 1 .. Len(population)] : Injective(g) } }

\* one result of rng.sample per choice of k positions (the order of a
\* sample only fixes the order in which its trials are drawn)
OrderedSamples(population, k) ==
    { PickPositions(population, sorted(chosen)) :
        chosen \in { c \in SUBSET (1 .. Len(population)) : Cardinality(c) = k } }

\* the results of rng.sample a tick is tried with
SampleSpace(mode, population, k) ==
    IF mode = "any_order" THEN Samples(population, k)
    ELSE OrderedSamples(population, k)

UncappedAttempts(neighbor_indices) == Len(neighbor_indices)

\* line 595
attempts(neighbor_indices) == Min(Len(neighbor_indices), MAX_INFECTION_ATTEMPTS)

\* the rng.random() values drawn for a sample: one per target that is not
\* infected, none (NoDraw) for a target that is skipped
Rolls(node_list, targets, percents) ==
    LET drawn == { j \in 1 .. Len(targets) : node_list[targets[j]].state # "infected" }
    IN  { [ j \in 1 .. Len(targets) |-> IF j \in drawn THEN r[j] ELSE NoDraw ] :
            r \in [ drawn -> RandomValues(percents) ] }

AnyNodeDraws(node_list, neighbor_lists, idx, stream) ==
    LET others == sorted(DOMAIN node_list \ {idx})
    IN  UNION { { [targets |-> t, rolls |-> r] : r \in Rolls(node_list, t, stream.percents) } :
                t \in SampleSpace(stream.sample_mode, others, 1) }

\* the draws source idx makes in one tick (lines 595-603)
SourceDraws(node_list, neighbor_lists, idx, stream) ==
    UNION { { [targets |-> t, rolls |-> r] : r \in Rolls(node_list, t, stream.percents) } :
            t \in SampleSpace(stream.sample_mode, neighbor_lists[idx],
                              attempts(neighbor_lists[idx])) }

AnyStateSources(node_list, neighbor_lists) ==
    { idx \in DOMAIN node_list : neighbor_lists[idx] # << >> }

\* the nodes that pass the two tests of the loop (lines 589-593): the
\* sources that draw in a tick
DrawingSources(node_list, neighbor_lists) ==
    { idx \in DOMAIN node_list :
        node_list[idx].state = "infected" /\ neighbor_lists[idx] # << >> }

RECURSIVE DrawFunctions(_, _, _, _)
DrawFunctions(node_list, neighbor_lists, sources, stream) ==
    IF sources = {} THEN { << >> }
    ELSE LET idx == CHOOSE m \in sources : \A e \in sources : m >= e
         IN  { f @@ (idx :> d) :
                 f \in DrawFunctions(node_list, neighbor_lists, sources \ {idx}, stream),
                 d \in SourceDraws(node_list, neighbor_lists, idx, stream) }

\* every way the random stream can answer the draws of one tick
TickDraws(node_list, neighbor_lists, stream) ==
    DrawFunctions(node_list, neighbor_lists,
                  DrawingSources(node_list, neighbor_lists), stream)

-----------------------------------------------------------------------------
(* update_infections *)

EmptyScan == [ newly_infected |-> << >>, log |-> << >> ]

\* lines 598-603: target j of the sample of source idx is not infected and
\* the value drawn for it is below the chance of the pair
Infects(node_list, idx, draw, j) ==
    LET node == node_list[idx]
        target == node_list[draw.targets[j]]
        distance == hypot(node.x - target.x, node.y - target.y)
        chance == infection_probability(node.device_type, target.device_type, distance)
    IN  target.state # "infected" /\ draw.rolls[j] < chance

EagerTryTarget(node_list, idx, draw, j, scan) ==
    LET target_idx == draw.targets[j]
        last == Len(scan.log)
        hit == Infects(node_list, idx, draw, j)
    IN  [ newly_infected |-> IF hit THEN Append(scan.newly_infected, target_idx)
                             ELSE scan.newly_infected,
          log |-> [ scan.log EXCEPT ![last].targets = Append(@, target_idx),
                                    ![last].trials = Append(@, target_idx),
                                    ![last].hits = IF hit THEN Append(@, target_idx)
                                                   ELSE @ ] ]

\* One iteration of the loop over targets (lines 597-604): the scan after
\* target j of the sample of source idx.
TryTarget(node_list, idx, draw, j, scan) ==
    LET target_idx == draw.targets[j]
        last == Len(scan.log)
    IN  IF node_list[target_idx].state = "infected"
        THEN [ scan EXCEPT !.log[last].targets = Append(@, target_idx) ]
        ELSE LET hit == Infects(node_list, idx, draw, j)
             IN  [ newly_infected |-> IF hit THEN Append(scan.newly_infected, target_idx)
                                      ELSE scan.newly_infected,
                   log |-> [ scan.log EXCEPT
                               ![last].targets = Append(@, target_idx),
                               ![last].trials = Append(@, target_idx),
                               ![last].hits = IF hit THEN Append(@, target_idx) ELSE @ ] ]

RECURSIVE TryTargets(_, _, _, _, _)
TryTargets(node_list, idx, draw, j, scan) ==
    IF j > Len(draw.targets) THEN scan
    ELSE TryTargets(node_list, idx, draw, j + 1, TryTarget(node_list, idx, draw, j, scan))

\* The loop over the nodes (lines 588-604), from node idx on.  draws[idx]
\* holds what the stream answers to source idx.
RECURSIVE ScanSources(_, _, _, _, _)
ScanSources(node_list, neighbor_lists, draws, idx, scan) ==
    IF idx \notin DOMAIN node_list THEN scan
    ELSE IF idx \notin DrawingSources(node_list, neighbor_lists)
         THEN ScanSources(node_list, neighbor_lists, draws, idx + 1, scan)
    ELSE LET opened == [ scan EXCEPT !.log = Append(@,
                            [ source |-> idx, sample |-> draws[idx].targets,
                              targets |-> << >>, trials |-> << >>,
                              hits |-> << >> ]) ]
         IN  ScanSources(node_list, neighbor_lists, draws, idx + 1,
                         TryTargets(node_list, idx, draws[idx], 1, opened))

ResettingCommit(node_list, infected_set) ==
    [ idx \in DOMAIN node_list |->
        IF idx \in infected_set
        THEN [ node_list[idx] EXCEPT !.state = "infected" ]
        ELSE [ node_list[idx] EXCEPT !.state = "secure" ] ]

VulnerableCommit(node_list, infected_set) ==
    [ idx \in DOMAIN node_list |->
        IF idx \in infected_set
        THEN [ node_list[idx] EXCEPT !.state = "vulnerable" ]
        ELSE node_list[idx] ]

MovingCommit(node_list, infected_set) ==
    [ idx \in DOMAIN node_list |->
        IF idx \in infected_set
        THEN [ node_list[idx] EXCEPT !.state = "infected", !.x = 0, !.y = 0 ]
        ELSE node_list[idx] ]

\* lines 606-607, for infected_set = set(newly_infected)
CommitInfections(node_list, infected_set) ==
    [ idx \in DOMAIN node_list |->
        IF idx \in infected_set
        THEN [ node_list[idx] EXCEPT !.state = "infected" ]
        ELSE node_list[idx] ]

\* a commit that changes the state of a node once for every time it was
\* appended to newly_infected
RECURSIVE ToggleEach(_, _, _)
ToggleEach(node_list, marks, i) ==
    IF i > Len(marks) THEN node_list
    ELSE ToggleEach([ node_list EXCEPT ![marks[i]].state =
                        IF @ = "infected" THEN "secure" ELSE "infected" ], marks, i + 1)

TogglingUpdate(node_list, neighbor_lists, draws) ==
    LET scan == ScanSources(node_list, neighbor_lists, draws, 0, EmptyScan)
    IN  [ nodes |-> ToggleEach(node_list, scan.newly_infected, 1),
          log |-> scan.log ]

update_infections(node_list, neighbor_lists, draws) ==
    LET scan == ScanSources(node_list, neighbor_lists, draws, 0, EmptyScan)
    IN  [ nodes |-> CommitInfections(node_list, SeqToSet(scan.newly_infected)),
          log |-> scan.log ]

(* The same tick as a relation: every node list one call can leave, over   *)
(* all answers of the random stream.  The draws of different sources are   *)
(* independent, so the possible contents of set(newly_infected) are the    *)
(* unions of what each source can mark.                                    *)

\* what source idx can append to newly_infected (lines 595-604)
SourceMarks(node_list, neighbor_lists, idx, stream) ==
    { { d.targets[j] : j \in { i \in 1 .. Len(d.targets) : Infects(node_list, idx, d, i) } } :
        d \in SourceDraws(node_list, neighbor_lists, idx, stream) }

\* the possible set(newly_infected) of the loop over the nodes from idx on
RECURSIVE PendingFrom(_, _, _, _)
PendingFrom(node_list, neighbor_lists, idx, stream) ==
    IF idx \notin DOMAIN node_list THEN { {} }
    ELSE IF idx \notin DrawingSources(node_list, neighbor_lists)
         THEN PendingFrom(node_list, neighbor_lists, idx + 1, stream)
    ELSE { marked \cup later :
             marked \in SourceMarks(node_list, neighbor_lists, idx, stream),
             later \in PendingFrom(node_list, neighbor_lists, idx + 1, stream) }

\* the loop with every infection written to its node at once: the sets of
\* nodes the loop from idx on can infect, given those infected before (done)
RECURSIVE ImmediateFrom(_, _, _, _, _)
ImmediateFrom(node_list, neighbor_lists, idx, stream, done) ==
    IF idx \notin DOMAIN node_list THEN { done }
    ELSE IF idx \notin DrawingSources(node_list, neighbor_lists)
         THEN ImmediateFrom(node_list, neighbor_lists, idx + 1, stream, done)
    ELSE UNION { ImmediateFrom(CommitInfections(node_list, marked),
                               neighbor_lists, idx + 1, stream, done \cup marked) :
                 marked \in SourceMarks(node_list, neighbor_lists, idx, stream) }

ImmediatePendingSets(node_list, neighbor_lists, stream) ==
    ImmediateFrom(node_list, neighbor_lists, 0, stream, {})

\* every value set(newly_infected) can have at line 606
PendingSets(node_list, neighbor_lists, stream) ==
    PendingFrom(node_list, neighbor_lists, 0, stream)

-----------------------------------------------------------------------------
(* main(): set-up and the tick of the main loop.  config holds the inputs  *)
(* of a run: the size of the map image, the land oracle, the scenario      *)
(* tables and the configured node count, and the answers the random stream *)
(* is tried with (sample_mode, percents).                                  *)

MaxGraphNodes == 2       \* nodes of an arbitrary edge list
MaxGraphEdges == 3       \* edges of an arbitrary edge list
MaxLeaves == 5           \* leaves of a star graph

-----------------------------------------------------------------------------
(* The menu and the upgrade tree: the handler of a left mouse click        *)
(* (lines 972-990).  Mouse positions are whole pixels.                     *)

UPGRADE_NODE_RADIUS == 28
PANEL_MARGIN == 24
PANEL_WIDTH == 340

UPGRADE_TREE == <<
    [ id |-> "awareness",        cost |-> 1, position |-> << 80, 70 >>,
      prerequisites |-> { } ],
    [ id |-> "patch_automation", cost |-> 1, position |-> << 220, 70 >>,
      prerequisites |-> { } ],
    [ id |-> "segmentation",     cost |-> 2, position |-> << 150, 160 >>,
      prerequisites |-> { "awareness", "patch_automation" } ],
    [ id |-> "threat_hunting",   cost |-> 2, position |-> << 70, 250 >>,
      prerequisites |-> { "segmentation" } ],
    [ id |-> "deception",        cost |-> 2, position |-> << 230, 250 >>,
      prerequisites |-> { "segmentation" } ],
    [ id |-> "resilience",       cost |-> 3, position |-> << 150, 340 >>,
      prerequisites |-> { "threat_hunting", "deception" } ] >>

UpgradeIds == { UPGRADE_TREE[i].id : i \in 1 .. Len(UPGRADE_TREE) }

\* pygame.Rect.collidepoint: the right and bottom edges are outside
collidepoint(rect, pos) ==
    /\ rect.x <= pos[1] /\ pos[1] < rect.x + rect.w
    /\ rect.y <= pos[2] /\ pos[2] < rect.y + rect.h

\* build_menu_buttons
MenuKeys == << "upgrades", "virus", "settings" >>

build_menu_buttons ==
    LET button_width == WINDOW_WIDTH \div Len(MenuKeys)
    IN  [ i \in 1 .. Len(MenuKeys) |->
            [ key |-> MenuKeys[i],
              rect |-> [ x |-> (i - 1) * button_width, y |-> 0,
                         w |-> IF i < Len(MenuKeys) THEN button_width
                               ELSE WINDOW_WIDTH - (i - 1) * button_width,
                         h |-> MENU_HEIGHT ] ] ]

\* lines 953-960
panel_rect ==
    [ x |-> WINDOW_WIDTH - PANEL_WIDTH - PANEL_MARGIN, y |-> MENU_HEIGHT + PANEL_MARGIN,
      w |-> PANEL_WIDTH, h |-> WINDOW_HEIGHT - MENU_HEIGHT - PANEL_MARGIN * 2 ]

\* compute_upgrade_centers, for entry i of the tree
UpgradeCenter(i) ==
    << panel_rect.x + UPGRADE_TREE[i].position[1],
       panel_rect.y + UPGRADE_TREE[i].position[2] >>

\* get_upgrade_under_point: the first entry of the tree whose disc holds
\* the point, 0 if there is none
get_upgrade_under_point(pos) ==
    LET hits == { i \in 1 .. Len(UPGRADE_TREE) :
                    LET dx == pos[1] - UpgradeCenter(i)[1]
                        dy == pos[2] - UpgradeCenter(i)[2]
                    IN  dx * dx + dy * dy <= UPGRADE_NODE_RADIUS * UPGRADE_NODE_RADIUS }
    IN  IF hits = {} THEN 0 ELSE CHOOSE i \in hits : \A j \in hits : i <= j

RepurchasableUpgrade(node, state, points) ==
    /\ points >= node.cost
    /\ \A req \in node.prerequisites : state[req]

NoPrerequisiteCheck(node, state, points) ==
    /\ ~ state[node.id]
    /\ points >= node.cost

NoPointsCheck(node, state, points) ==
    /\ ~ state[node.id]
    /\ \A req \in node.prerequisites : state[req]

can_purchase_upgrade(node, state, points) ==
    /\ ~ state[node.id]
    /\ points >= node.cost
    /\ \A req \in node.prerequisites : state[req]

\* the first menu button that holds the point, 0 if there is none
ButtonUnder(pos) ==
    LET hits == { i \in 1 .. Len(MenuKeys) : collidepoint(build_menu_buttons[i].rect, pos) }
    IN  IF hits = {} THEN 0 ELSE CHOOSE i \in hits : \A j \in hits : i <= j

NoUi == [ active_panel |-> "unset" ]

\* lines 949-951
InitialUi ==
    [ upgrade_state |-> [ u \in UpgradeIds |-> FALSE ],
      upgrade_points |-> UPGRADE_STARTING_POINTS,
      active_panel |-> "none" ]

UngatedClick(u, pos) ==
    LET button == ButtonUnder(pos)
        selected == get_upgrade_under_point(pos)
    IN  IF button # 0
        THEN [ u EXCEPT !.active_panel =
                 IF @ = MenuKeys[button] THEN "none" ELSE MenuKeys[button] ]
        ELSE IF /\ collidepoint(panel_rect, pos)
                /\ selected # 0
                /\ can_purchase_upgrade(UPGRADE_TREE[selected], u.upgrade_state,
                                        u.upgrade_points)
             THEN [ u EXCEPT !.upgrade_state[UPGRADE_TREE[selected].id] = TRUE,
                             !.upgrade_points = @ - UPGRADE_TREE[selected].cost ]
             ELSE u

\* the handler of MOUSEBUTTONDOWN with button 1 at pos (lines 972-990)
HandleClick(u, pos) ==
    LET button == ButtonUnder(pos)
        selected == get_upgrade_under_point(pos)
    IN  IF button # 0
        THEN [ u EXCEPT !.active_panel =
                 IF @ = MenuKeys[button] THEN "none" ELSE MenuKeys[button] ]
        ELSE IF /\ u.active_panel = "upgrades"
                /\ collidepoint(panel_rect, pos)
                /\ selected # 0
                /\ can_purchase_upgrade(UPGRADE_TREE[selected], u.upgrade_state,
                                        u.upgrade_points)
             THEN [ u EXCEPT !.upgrade_state[UPGRADE_TREE[selected].id] = TRUE,
                             !.upgrade_points = @ - UPGRADE_TREE[selected].cost ]
             ELSE u

\* the mouse positions a run is clicked at: the middle of every menu
\* button, the centre of every upgrade, the rim of the first disc and the
\* pixel beyond it, a free spot of the panel, a spot of the map
ClickPoints ==
    { << build_menu_buttons[i].rect.x + build_menu_buttons[i].rect.w \div 2,
         MENU_HEIGHT \div 2 >> : i \in 1 .. Len(MenuKeys) }
    \cup { UpgradeCenter(i) : i \in 1 .. Len(UPGRADE_TREE) }
    \cup { << UpgradeCenter(1)[1] + UPGRADE_NODE_RADIUS, UpgradeCenter(1)[2] >>,
           << UpgradeCenter(1)[1] + UPGRADE_NODE_RADIUS + 1, UpgradeCenter(1)[2] >>,
           << panel_rect.x + 1, panel_rect.y + panel_rect.h - 1 >>,
           << WINDOW_WIDTH \div 4, WINDOW_HEIGHT \div 2 >> }

\* the sizes of the map image a run is tried with
ImageSizes == { << 2048, 1024 >> }

\* the node specifications of a run: the first spec_count of the table
NodeSpecs(spec_count) == SubSeq(SCENARIO_NODE_SPECS, 1, spec_count)

\* lines 933 and 476-528
GenerateNodes ==
    /\ pc = "start"
    /\ IF ConfigMismatch(config.spec_count, config.node_count)
       THEN /\ pc' = "failed"
            /\ placement' = MismatchError
            /\ UNCHANGED nodes
       ELSE \E tapes \in JitterTapes :
            /\ nodes' = generate_nodes(NodeSpecs(config.spec_count),
                                       MakeProjection(config.image),
                                       config.land, tapes)
            /\ placement' = PlacementReport(NodeSpecs(config.spec_count),
                                            config.land, tapes)
            /\ pc' = "placed"
    /\ UNCHANGED << config, connections, neighbors, patient_zero, ticks,
                    draw_log, rng, other, probe, ui >>

\* lines 933 and 476-528, keeping the jittered points of the call
LoggedGenerateNodes ==
    /\ pc = "start"
    /\ IF ConfigMismatch(config.spec_count, config.node_count)
       THEN /\ pc' = "failed"
            /\ placement' = MismatchError
            /\ UNCHANGED << nodes, draw_log >>
       ELSE \E tapes \in JitterTapes :
            /\ nodes' = generate_nodes(NodeSpecs(config.spec_count),
                                       MakeProjection(config.image),
                                       config.land, tapes)
            /\ placement' = PlacementReport(NodeSpecs(config.spec_count),
                                            config.land, tapes)
            /\ draw_log' = PlacementDraws(NodeSpecs(config.spec_count),
                                          config.land, tapes)
            /\ pc' = "placed"
    /\ UNCHANGED << config, connections, neighbors, patient_zero, ticks,
                    rng, other, probe, ui >>

\* lines 934-935
BuildNeighbors ==
    /\ pc = "placed"
    /\ connections' = build_connections(config.connection_specs)
    /\ neighbors' = build_neighbor_lists_from_connections(
                        Cardinality(DOMAIN nodes), connections')
    /\ pc' = "built"
    /\ UNCHANGED << config, nodes, patient_zero, ticks, draw_log, rng, other, probe,
                    placement, ui >>

InfectNobody ==
    /\ pc = "built"
    /\ \E p \in 0 .. Cardinality(DOMAIN nodes) - 1 :
        /\ patient_zero' = p
        /\ nodes' = nodes
    /\ ui' = InitialUi
    /\ pc' = "running"
    /\ UNCHANGED << config, connections, neighbors, ticks, draw_log, rng, other, probe,
                    placement >>

\* lines 938-951
InfectPatientZero ==
    /\ pc = "built"
    /\ \E p \in 0 .. Cardinality(DOMAIN nodes) - 1 :
        /\ patient_zero' = p
        /\ nodes' = [ nodes EXCEPT ![p].state = "infected" ]
    /\ ui' = InitialUi
    /\ pc' = "running"
    /\ UNCHANGED << config, connections, neighbors, ticks, draw_log, rng, other, probe,
                    placement >>

\* ticks counts the calls of update_infections up to max_ticks
CountTick == ticks' = Min(ticks + 1, config.max_ticks)

\* lines 992-994
Tick ==
    /\ pc = "running"
    /\ \E pending \in PendingSets(nodes, neighbors, config) :
        nodes' = CommitInfections(nodes, pending)
    /\ CountTick
    /\ UNCHANGED << pc, config, connections, neighbors, patient_zero,
                    draw_log, rng, other, probe, placement, ui >>

\* lines 992-994, keeping the draws of the call
LoggedTick ==
    /\ pc = "running"
    /\ \E draws \in TickDraws(nodes, neighbors, config) :
        LET result == update_infections(nodes, neighbors, draws)
        IN  /\ nodes' = result.nodes
            /\ draw_log' = result.log
    /\ CountTick
    /\ UNCHANGED << pc, config, connections, neighbors, patient_zero, rng, other, probe,
                    placement, ui >>

EngineStart ==
    /\ pc = "start"
    /\ nodes = << >>
    /\ connections = << >>
    /\ neighbors = << >>
    /\ patient_zero = -1
    /\ ticks = 0
    /\ draw_log = << >>
    /\ placement = NoPlacement
    /\ ui = NoUi

SeededOff == rng = [key |-> -1, pos |-> 0] /\ other = [pc |-> "off"]
ProbeOff == probe = [phase |-> "off"]

(* The program on its scenario tables, every answer of the random stream *)
Init ==
    /\ config \in [ image : ImageSizes, land : {"none", "stripes"},
                    spec_count : {Len(SCENARIO_NODE_SPECS)},
                    node_count : {NODE_COUNT, NODE_COUNT + 1},
                    connection_specs : {SCENARIO_CONNECTION_SPECS},
                    sample_mode : {"one_order"}, percents : {{0, 95}},
                    max_ticks : {MaxTicks} ]
    /\ EngineStart
    /\ SeededOff
    /\ ProbeOff

Next == GenerateNodes \/ BuildNeighbors \/ InfectPatientZero \/ Tick

Spec == Init /\ [][Next]_vars

-----------------------------------------------------------------------------
(* The program on its scenario tables under fair draws.  A tick is taken   *)
(* every UPDATE_INTERVAL seconds for as long as the window is open, and    *)
(* while a secure node has an infected neighbour each tick infects some    *)
(* node with a chance that is bounded away from zero: a run in which the   *)
(* ticks could infect a node and never do has probability zero.            *)

\* the secure nodes with an infected neighbour
Exposed(node_list, neighbor_lists) ==
    { n \in DOMAIN node_list :
        /\ node_list[n].state = "secure"
        /\ \E m \in SeqToSet(neighbor_lists[n]) : node_list[m].state = "infected" }

\* a tick (lines 992-994) in which exactly one node is hit, one of the
\* exposed nodes
TickInfectingOne ==
    /\ pc = "running"
    /\ \E n \in Exposed(nodes, neighbors) :
        nodes' = CommitInfections(nodes, {n})
    /\ CountTick
    /\ UNCHANGED << pc, config, connections, neighbors, patient_zero,
                    draw_log, rng, other, probe, placement, ui >>

InitFair ==
    /\ config \in [ image : ImageSizes, land : {"none", "stripes"},
                    spec_count : {Len(SCENARIO_NODE_SPECS)},
                    node_count : {NODE_COUNT},
                    connection_specs : {SCENARIO_CONNECTION_SPECS},
                    sample_mode : {"one_order"}, percents : {{0, 95}},
                    max_ticks : {1} ]
    /\ EngineStart
    /\ SeededOff
    /\ ProbeOff

FairDraws == WF_vars(TickInfectingOne)

SpecFair == InitFair /\ [][Next]_vars /\ FairDraws

-----------------------------------------------------------------------------
(* infection_probability as a function of its inputs: one call for a pair  *)
(* of device types and a distance, followed by a second call either        *)
(* farther away or with source and target exchanged.                       *)

ProbeDistances ==
    { p * PixelUnit : p \in 0 .. MaxProbePixels } \cup { Radius - 1, Radius + 1 }

EngineOff ==
    /\ pc = "off"
    /\ config = [image |-> << 0, 0 >>]
    /\ nodes = << >>
    /\ connections = << >>
    /\ neighbors = << >>
    /\ patient_zero = -1
    /\ ticks = 0
    /\ draw_log = << >>
    /\ placement = NoPlacement
    /\ ui = NoUi

engine_vars == << pc, config, nodes, connections, neighbors, patient_zero,
                  ticks, draw_log, placement, ui >>

InitProb ==
    /\ probe \in [ phase : {"input"}, source : DeviceTypes, target : DeviceTypes,
                   distance : ProbeDistances, chance : {-1},
                   prev_distance : {-1}, prev_chance : {-1} ]
    /\ EngineOff
    /\ SeededOff

ProbeCall ==
    /\ probe.phase = "input"
    /\ probe' = [ probe EXCEPT
                    !.phase = "called",
                    !.chance = infection_probability(probe.source, probe.target,
                                                     probe.distance) ]
    /\ UNCHANGED << engine_vars, rng, other >>

ProbeFarther ==
    /\ probe.phase = "called"
    /\ \E d \in ProbeDistances :
        /\ d >= probe.distance
        /\ probe' = [ probe EXCEPT
                        !.phase = "moved",
                        !.distance = d,
                        !.chance = infection_probability(probe.source, probe.target, d),
                        !.prev_distance = probe.distance,
                        !.prev_chance = probe.chance ]
    /\ UNCHANGED << engine_vars, rng, other >>

ProbeSwapped ==
    /\ probe.phase = "called"
    /\ probe' = [ probe EXCEPT
                    !.phase = "swapped",
                    !.source = probe.target,
                    !.target = probe.source,
                    !.chance = infection_probability(probe.target, probe.source,
                                                     probe.distance),
                    !.prev_distance = probe.distance,
                    !.prev_chance = probe.chance ]
    /\ UNCHANGED << engine_vars, rng, other >>

NextProb == ProbeCall \/ ProbeFarther \/ ProbeSwapped

SpecProb == InitProb /\ [][NextProb]_vars

-----------------------------------------------------------------------------
(* build_neighbor_lists_from_connections on every short edge list over a   *)
(* few nodes (the first nodes of the scenario table), followed by ticks.   *)

EdgeLists(node_count, max_edges) ==
    UNION { [ 1 .. k -> [ source : 0 .. node_count - 1, target : 0 .. node_count - 1 ] ] :
            k \in 0 .. max_edges }

InitGraph ==
    /\ \E n \in 1 .. MaxGraphNodes :
        config \in [ image : ImageSizes, land : {"none"},
                     spec_count : {n}, node_count : {n},
                     connection_specs : EdgeLists(n, MaxGraphEdges),
                     sample_mode : {"any_order"}, percents : {{0, 15, 95}},
                     max_ticks : {1} ]
    /\ EngineStart
    /\ SeededOff
    /\ ProbeOff

NextGraph == GenerateNodes \/ BuildNeighbors \/ InfectPatientZero \/ Tick

SpecGraph == InitGraph /\ [][NextGraph]_vars

-----------------------------------------------------------------------------
(* The tick with its draws kept, on stars: node 0 joined to 1 .. leaves,   *)
(* and one more node without any connection.                               *)

StarEdges(leaves) == [ i \in 1 .. leaves |-> [ source |-> 0, target |-> i ] ]

InitSample ==
    /\ \E leaves \in 0 .. MaxLeaves :
        config \in [ image : ImageSizes, land : {"none"},
                     spec_count : {leaves + 2}, node_count : {leaves + 2},
                     connection_specs : {StarEdges(leaves)},
                     sample_mode : {"one_order"}, percents : {{0, 95}},
                     max_ticks : {1} ]
    /\ EngineStart
    /\ SeededOff
    /\ ProbeOff

NextSample == GenerateNodes \/ BuildNeighbors \/ InfectPatientZero \/ LoggedTick

SpecSample == InitSample /\ [][NextSample]_vars

-----------------------------------------------------------------------------
(* The tick on every graph over a few nodes (the first nodes of the        *)
(* scenario table), each graph given by its set of connected pairs, and on *)
(* the star with the most leaves.                                          *)

MaxOrderNodes == 3       \* nodes of a graph given by its pairs

NodePairs(node_count) ==
    { pair \in (0 .. node_count - 1) \X (0 .. node_count - 1) : pair[1] < pair[2] }

RECURSIVE PairList(_)
PairList(pairs) ==
    IF pairs = {} THEN << >>
    ELSE LET least == CHOOSE p \in pairs :
                        \A q \in pairs : p[1] < q[1] \/ (p[1] = q[1] /\ p[2] <= q[2])
         IN  << [ source |-> least[1], target |-> least[2] ] >> \o PairList(pairs \ {least})

OrderGraphs ==
    UNION { { [ count |-> n, conns |-> PairList(pairs), mode |-> "any_order" ] :
                pairs \in SUBSET NodePairs(n) } :
            n \in 2 .. MaxOrderNodes }
    \cup { [ count |-> MaxLeaves + 1, conns |-> StarEdges(MaxLeaves), mode |-> "one_order" ] }

InitOrder ==
    /\ \E graph \in OrderGraphs :
        config \in [ image : ImageSizes, land : {"none"},
                     spec_count : {graph.count}, node_count : {graph.count},
                     connection_specs : {graph.conns},
                     sample_mode : {graph.mode}, percents : {{0, 15, 95}},
                     max_ticks : {1} ]
    /\ EngineStart
    /\ SeededOff
    /\ ProbeOff

NextOrder == GenerateNodes \/ BuildNeighbors \/ InfectPatientZero \/ Tick

SpecOrder == InitOrder /\ [][NextOrder]_vars

-----------------------------------------------------------------------------
(* The tick with its draws kept, on every graph over a few nodes.          *)

CommitGraphs == { PairList(pairs) : pairs \in SUBSET NodePairs(MaxOrderNodes) }

InitCommit ==
    /\ config \in [ image : ImageSizes, land : {"none"},
                    spec_count : {MaxOrderNodes}, node_count : {MaxOrderNodes},
                    connection_specs : CommitGraphs,
                    sample_mode : {"one_order"}, percents : {{0, 95}},
                    max_ticks : {1} ]
    /\ EngineStart
    /\ SeededOff
    /\ ProbeOff

NextCommit == GenerateNodes \/ BuildNeighbors \/ InfectPatientZero \/ LoggedTick

SpecCommit == InitCommit /\ [][NextCommit]_vars

-----------------------------------------------------------------------------
(* generate_nodes on the first specifications of the scenario table, in    *)
(* every world and with its jittered points kept, followed by the rest of  *)
(* the set-up of main() on a scenario without connections.                 *)

PlacementOracles == LandOracles \cup {"coast"}

InitPlace ==
    /\ \E n \in 1 .. Len(SCENARIO_NODE_SPECS) :
        config \in [ image : ImageSizes, land : PlacementOracles,
                     spec_count : {n}, node_count : {n, n + 1},
                     connection_specs : { << >> },
                     sample_mode : {"one_order"}, percents : {{0, 95}},
                     max_ticks : {1} ]
    /\ EngineStart
    /\ SeededOff
    /\ ProbeOff

NextPlace == LoggedGenerateNodes \/ BuildNeighbors \/ InfectPatientZero

SpecPlace == InitPlace /\ [][NextPlace]_vars

-----------------------------------------------------------------------------
(* Two runs of the program from the same seed and configuration.  The      *)
(* generator random.Random(seed) is a counter-based generator: its state   *)
(* is the key it was started from and the number of draws made, and the    *)
(* value of a draw is a function of the two.  The first run lives in       *)
(* the variables of the program, the second in the record other; each      *)
(* run has its own ambient entropy (what an unseeded generator would be    *)
(* started from), and the two runs step independently.                     *)

MaxSeedOffset == 7       \* seeds tried: SEED .. SEED + MaxSeedOffset

UnseededStream(seed, entropy) == [ key |-> entropy, pos |-> 0 ]

\* line 923: random.Random(SEED)
InitialStream(seed, entropy) == [ key |-> seed, pos |-> 0 ]

\* the raw value of draw number pos of the generator started from key
Raw(key, pos) ==
    ((key + 1) * (pos + 1) * 7919 + pos * pos * 31 + key * 104729) % 65537

\* the raw value of the n-th draw after stream state s, and the state
\* after n draws
Draw(s, n) == Raw(s.key, s.pos + n)
Advance(s, n) == [ s EXCEPT !.pos = @ + n ]

\* rng.random(), as a roll in units of 1 / ProbScale
StreamRoll(s) == ((Draw(s, 1) * 100) \div 65537) * Radius

\* rng.randrange(n)
StreamBelow(s, n) == Draw(s, 1) % n

\* the draws behind attempt k of a placement that starts in stream state s
StreamTape(s) ==
    [ k \in 1 .. PLACEMENT_ATTEMPTS |->
        << Draw(s, 2 * k - 1) % (UniformDen + 1),
           Draw(s, 2 * k) % (UniformDen + 1) >> ]

\* generate_nodes on the stream: the tapes of the nodes from idx on and the
\* stream state after the last draw
RECURSIVE StreamTapes(_, _, _, _, _)
StreamTapes(specs, oracle, idx, s, tapes) ==
    IF idx >= Len(specs) THEN [ tapes |-> tapes, state |-> s ]
    ELSE LET tape == StreamTape(s)
             first == AcceptedAttempt(specs[idx + 1], oracle, tape)
             used == IF first = 0 THEN PLACEMENT_ATTEMPTS ELSE first
         IN  StreamTapes(specs, oracle, idx + 1, Advance(s, 2 * used),
                         tapes @@ (idx :> tape))

\* rng.sample(population, k) on the stream: k times, pick a position of
\* the pool below its live length and move the last live element there
RECURSIVE StreamSample(_, _, _, _)
StreamSample(pool, k, s, result) ==
    IF Len(result) = k THEN [ targets |-> result, state |-> s ]
    ELSE LET live == Len(pool) - Len(result)
             j == StreamBelow(s, live) + 1
         IN  StreamSample([ pool EXCEPT ![j] = pool[live] ], k, Advance(s, 1),
                          Append(result, pool[j]))

\* the rolls of the trials of a sample, from target j on
RECURSIVE StreamRolls(_, _, _, _, _)
StreamRolls(node_list, targets, j, s, rolls) ==
    IF j > Len(targets) THEN [ rolls |-> rolls, state |-> s ]
    ELSE IF node_list[targets[j]].state = "infected"
         THEN StreamRolls(node_list, targets, j + 1, s, Append(rolls, NoDraw))
    ELSE StreamRolls(node_list, targets, j + 1, Advance(s, 1),
                     Append(rolls, StreamRoll(s)))

\* the draws of one tick on the stream, from node idx on (lines 588-603)
RECURSIVE StreamDraws(_, _, _, _, _)
StreamDraws(node_list, neighbor_lists, idx, s, draws) ==
    IF idx \notin DOMAIN node_list THEN [ draws |-> draws, state |-> s ]
    ELSE IF idx \notin DrawingSources(node_list, neighbor_lists)
         THEN StreamDraws(node_list, neighbor_lists, idx + 1, s, draws)
    ELSE LET sample == StreamSample(neighbor_lists[idx],
                                    attempts(neighbor_lists[idx]), s, << >>)
             trials == StreamRolls(node_list, sample.targets, 1, sample.state, << >>)
         IN  StreamDraws(node_list, neighbor_lists, idx + 1, trials.state,
                         draws @@ (idx :> [ targets |-> sample.targets,
                                            rolls |-> trials.rolls ]))

\* the next position of main() for a seeded run
SeededStep(run, entropy) ==
    CASE run.pc = "unseeded" ->
            [ run EXCEPT !.pc = "start",
                         !.rng = InitialStream(config.seed, entropy) ]
      [] run.pc = "start" ->
            LET placed == StreamTapes(NodeSpecs(config.spec_count), config.land,
                                      0, run.rng, << >>)
            IN  IF ConfigMismatch(config.spec_count, config.node_count)
                THEN [ run EXCEPT !.pc = "failed", !.placement = MismatchError ]
                ELSE
                [ run EXCEPT !.pc = "placed",
                             !.nodes = generate_nodes(NodeSpecs(config.spec_count),
                                                      MakeProjection(config.image),
                                                      config.land, placed.tapes),
                             !.placement = PlacementReport(NodeSpecs(config.spec_count),
                                                           config.land, placed.tapes),
                             !.rng = placed.state ]
      [] run.pc = "placed" ->
            [ run EXCEPT !.pc = "built",
                         !.connections = build_connections(config.connection_specs),
                         !.neighbors = build_neighbor_lists_from_connections(
                                           Cardinality(DOMAIN run.nodes),
                                           build_connections(config.connection_specs)) ]
      [] run.pc = "built" ->
            LET p == StreamBelow(run.rng, Cardinality(DOMAIN run.nodes))
            IN  [ run EXCEPT !.pc = "running",
                             !.patient_zero = p,
                             !.nodes = [ run.nodes EXCEPT ![p].state = "infected" ],
                             !.rng = Advance(run.rng, 1),
                             !.ui = InitialUi ]
      [] run.pc = "running" ->
            LET drawn == StreamDraws(run.nodes, run.neighbors, 0, run.rng, << >>)
            IN  [ run EXCEPT !.nodes = update_infections(run.nodes, run.neighbors,
                                                         drawn.draws).nodes,
                             !.ticks = run.ticks + 1,
                             !.rng = drawn.state ]

CanStep(run) ==
    /\ run.pc # "failed"
    /\ run.pc # "running" \/ run.ticks < config.max_ticks

FreshRun ==
    [ pc |-> "unseeded", nodes |-> << >>, connections |-> << >>, neighbors |-> << >>,
      patient_zero |-> -1, ticks |-> 0, rng |-> [ key |-> -1, pos |-> 0 ],
      placement |-> NoPlacement, ui |-> NoUi ]

FirstRun ==
    [ pc |-> pc, nodes |-> nodes, connections |-> connections, neighbors |-> neighbors,
      patient_zero |-> patient_zero, ticks |-> ticks, rng |-> rng,
      placement |-> placement, ui |-> ui ]

FirstRunStep ==
    /\ CanStep(FirstRun)
    /\ LET next == SeededStep(FirstRun, config.entropy[1])
       IN  /\ pc' = next.pc
           /\ nodes' = next.nodes
           /\ connections' = next.connections
           /\ neighbors' = next.neighbors
           /\ patient_zero' = next.patient_zero
           /\ ticks' = next.ticks
           /\ rng' = next.rng
           /\ placement' = next.placement
           /\ ui' = next.ui
    /\ UNCHANGED << config, draw_log, other, probe >>

SecondRunStep ==
    /\ CanStep(other)
    /\ other' = SeededStep(other, config.entropy[2])
    /\ UNCHANGED << engine_vars, rng, probe >>

InitDet ==
    /\ config \in [ image : ImageSizes, land : LandOracles,
                    spec_count : {Len(SCENARIO_NODE_SPECS)},
                    node_count : {NODE_COUNT, NODE_COUNT + 1},
                    connection_specs : {SCENARIO_CONNECTION_SPECS},
                    seed : SEED .. SEED + MaxSeedOffset,
                    entropy : { << 0, 0 >>, << 0, 1 >>, << 1, 0 >> },
                    max_ticks : {MaxTicks} ]
    /\ pc = FreshRun.pc
    /\ nodes = FreshRun.nodes
    /\ connections = FreshRun.connections
    /\ neighbors = FreshRun.neighbors
    /\ patient_zero = FreshRun.patient_zero
    /\ ticks = FreshRun.ticks
    /\ rng = FreshRun.rng
    /\ placement = FreshRun.placement
    /\ ui = FreshRun.ui
    /\ other = FreshRun
    /\ draw_log = << >>
    /\ ProbeOff

NextDet == FirstRunStep \/ SecondRunStep

SpecDet == InitDet /\ [][NextDet]_vars

-----------------------------------------------------------------------------
(* Two runs from the seed of the program, each with its own mouse clicks   *)
(* between the steps of main(): the event loop handles the clicks that     *)
(* arrived since the last frame and then, when the update interval has     *)
(* passed, calls update_infections.                                        *)

MaxUiTicks == 2          \* ticks taken by a run with mouse clicks

ClickStepDrawing(run, pos) ==
    [ run EXCEPT !.ui = HandleClick(run.ui, pos), !.rng = Advance(run.rng, 1) ]

\* one MOUSEBUTTONDOWN event of the event loop (lines 969-990)
ClickStep(run, pos) == [ run EXCEPT !.ui = HandleClick(run.ui, pos) ]

FirstRunClick ==
    /\ pc = "running"
    /\ \E pos \in ClickPoints :
        LET next == ClickStep(FirstRun, pos)
        IN  /\ pc' = next.pc
            /\ nodes' = next.nodes
            /\ connections' = next.connections
            /\ neighbors' = next.neighbors
            /\ patient_zero' = next.patient_zero
            /\ ticks' = next.ticks
            /\ rng' = next.rng
            /\ placement' = next.placement
            /\ ui' = next.ui
    /\ UNCHANGED << config, draw_log, other, probe >>

SecondRunClick ==
    /\ other.pc = "running"
    /\ \E pos \in ClickPoints : other' = ClickStep(other, pos)
    /\ UNCHANGED << engine_vars, rng, probe >>

InitUI ==
    /\ config \in [ image : ImageSizes, land : {"stripes"},
                    spec_count : {Len(SCENARIO_NODE_SPECS)}, node_count : {NODE_COUNT},
                    connection_specs : {SCENARIO_CONNECTION_SPECS},
                    seed : {SEED}, entropy : { << 0, 1 >> },
                    max_ticks : {MaxUiTicks} ]
    /\ pc = FreshRun.pc
    /\ nodes = FreshRun.nodes
    /\ connections = FreshRun.connections
    /\ neighbors = FreshRun.neighbors
    /\ patient_zero = FreshRun.patient_zero
    /\ ticks = FreshRun.ticks
    /\ rng = FreshRun.rng
    /\ placement = FreshRun.placement
    /\ ui = FreshRun.ui
    /\ other = FreshRun
    /\ draw_log = << >>
    /\ ProbeOff

NextUI == FirstRunStep \/ SecondRunStep \/ FirstRunClick \/ SecondRunClick

SpecUI == InitUI /\ [][NextUI]_vars

-----------------------------------------------------------------------------
(* Properties *)

Infected(node_list) == { n \in DOMAIN node_list : node_list[n].state = "infected" }
NeighborSet(n) == SeqToSet(neighbors[n])

\* C1  State monotonicity: a node that is infected is infected after every
\* step, so once infected it stays infected over any sequence of ticks.
C1_StateMonotonicity ==
    [][ \A n \in DOMAIN nodes :
            nodes[n].state = "infected" => nodes'[n].state = "infected" ]_vars

C1_Witness ==
    /\ pc = "running"
    /\ ticks >= 3
    /\ patient_zero \in Infected(nodes)
    /\ Cardinality(Infected(nodes)) >= 4

\* C2  One-hop frontier: a node a tick turns infected was secure when the
\* tick started and has a neighbour that was infected when the tick
\* started; on the scenario graph with node 0 the only infected node, the
\* first tick infects no node other than 1 and 2.
C2_OneHopFrontier ==
    [][ pc = "running" =>
          /\ \A n \in DOMAIN nodes :
                (nodes'[n].state = "infected" /\ nodes[n].state # "infected")
                    => /\ nodes[n].state = "secure"
                       /\ \E s \in Infected(nodes) : n \in NeighborSet(s)
          /\ (Infected(nodes) = {0} /\ ticks = 0 /\ Cardinality(DOMAIN nodes) = NODE_COUNT)
                => Infected(nodes') \subseteq {0, 1, 2} ]_vars

C2_Witness ==
    /\ pc = "running"
    /\ patient_zero = 0
    /\ ticks = 1
    /\ Infected(nodes) = {0, 1, 2}

\* C3  Determinism: two runs from the same seed and configuration that
\* have reached the same position and the same number of ticks have the
\* same nodes (positions and states), the same patient zero and the same
\* random-stream state.
C3_Determinism ==
    (other.pc = pc /\ other.ticks = ticks)
    => /\ other.nodes = nodes
       /\ other.patient_zero = patient_zero
       /\ other.rng = rng

C3_Witness ==
    /\ pc = "running"
    /\ other.pc = "running"
    /\ ticks = config.max_ticks
    /\ other.ticks = ticks
    /\ config.entropy[1] # config.entropy[2]
    /\ Cardinality(Infected(nodes)) >= 3
    /\ [ n \in DOMAIN nodes |-> nodes[n].state ]
         = [ n \in DOMAIN other.nodes |-> other.nodes[n].state ]

\* C4  Probability bounds: for every pair of device types and every
\* distance from 0 to the connection radius, the returned chance lies
\* between 0.05 and 0.95.
C4_ProbabilityBounds ==
    (probe.phase \in {"called", "moved", "swapped"}
        /\ 0 <= probe.distance /\ probe.distance <= Radius)
    => (5 * Radius <= probe.chance /\ probe.chance <= 95 * Radius)

C4_Witness ==
    /\ probe.phase = "called"
    /\ probe.distance = 0
    /\ probe.source = probe.target
    /\ probe.chance = 57 * Radius

\* the bonus of a pair of device types, in hundredths
ClaimedBonus(a, b) ==
    IF a = b THEN 12
    ELSE IF {a, b} \subseteq {"phone", "iot"} \/ {a, b} \subseteq {"computer", "server"}
         THEN 5 ELSE 0

\* C5  Monotonic decay: for a fixed pair of device types a call at a larger
\* distance never returns a larger chance, and at and beyond the connection
\* radius the chance is the base plus the category bonus alone.
C5_MonotonicDecay ==
    /\ probe.phase = "moved" => probe.chance <= probe.prev_chance
    /\ (probe.phase \in {"called", "moved", "swapped"} /\ probe.distance >= Radius)
        => probe.chance = (5 + ClaimedBonus(probe.source, probe.target)) * Radius

C5_Witness ==
    /\ probe.phase = "moved"
    /\ probe.prev_distance < Radius
    /\ probe.distance > Radius
    /\ probe.chance < probe.prev_chance

\* C6  Category symmetry: exchanging source and target at the same distance
\* returns the same chance.
C6_CategorySymmetry ==
    probe.phase = "swapped" => probe.chance = probe.prev_chance

C6_Witness ==
    /\ probe.phase = "swapped"
    /\ probe.source = "computer"
    /\ probe.target = "phone"
    /\ probe.distance < Radius

\* C7  Graph symmetry: in the neighbour lists built from any edge list, b is
\* a neighbour of a exactly when a is a neighbour of b, and this stays so
\* in every state reached by later ticks.
C7_GraphSymmetry ==
    pc \in {"built", "running"}
    => \A a, b \in DOMAIN neighbors : (b \in NeighborSet(a)) <=> (a \in NeighborSet(b))

C7_Witness ==
    /\ pc = "running"
    /\ ticks >= 1
    /\ Len(connections) = 1
    /\ connections[1].source # connections[1].target
    /\ connections[1].source \in NeighborSet(connections[1].target)

\* C8  Every neighbour list built from an edge list is strictly ascending,
\* also when the edge list repeats an edge or holds it in both directions.
C8_StrictlyAscending ==
    pc \in {"built", "running"}
    => \A a \in DOMAIN neighbors :
         \A i, j \in 1 .. Len(neighbors[a]) : i < j => neighbors[a][i] < neighbors[a][j]

C8_Witness ==
    /\ pc = "built"
    /\ \E i, j, k \in 1 .. Len(connections) :
        /\ i < j
        /\ connections[i] = connections[j]
        /\ connections[k].source = connections[i].target
        /\ connections[k].target = connections[i].source
        /\ connections[i].source < connections[i].target
        /\ neighbors[connections[i].source] = << connections[i].target >>

LogEntries(log, idx) == { i \in 1 .. Len(log) : log[i].source = idx }

\* C9  Bounded sampling: in one tick every node infected at its start with
\* n >= 1 neighbours attempts exactly min(n, MAX_INFECTION_ATTEMPTS)
\* targets, pairwise distinct and all in its own neighbour list; with no
\* more than MAX_INFECTION_ATTEMPTS neighbours each of them is attempted.
C9_BoundedSampling ==
    [][ pc = "running" =>
          \A idx \in DOMAIN nodes :
            (nodes[idx].state = "infected" /\ Len(neighbors[idx]) >= 1)
            => /\ Cardinality(LogEntries(draw_log', idx)) = 1
               /\ \A e \in LogEntries(draw_log', idx) :
                    LET attempted == draw_log'[e].targets
                    IN  /\ Len(attempted) = Min(Len(neighbors[idx]), MAX_INFECTION_ATTEMPTS)
                        /\ \A i, j \in 1 .. Len(attempted) : i # j => attempted[i] # attempted[j]
                        /\ SeqToSet(attempted) \subseteq NeighborSet(idx)
                        /\ Len(neighbors[idx]) <= MAX_INFECTION_ATTEMPTS
                            => SeqToSet(attempted) = NeighborSet(idx) ]_vars

C9_Witness ==
    /\ pc = "running"
    /\ ticks >= 1
    /\ \E e \in 1 .. Len(draw_log) :
        /\ Len(neighbors[draw_log[e].source]) > MAX_INFECTION_ATTEMPTS
        /\ Len(draw_log[e].targets) = MAX_INFECTION_ATTEMPTS

\* C10  Zero neighbours: while every infected node has an empty neighbour
\* list, a tick changes no node and makes no draw.
C10_ZeroNeighbours ==
    [][ (pc = "running" /\ \A idx \in Infected(nodes) : neighbors[idx] = << >>)
        => (nodes' = nodes /\ draw_log' = << >>) ]_vars

C10_Witness ==
    /\ pc = "running"
    /\ ticks >= 1
    /\ neighbors[patient_zero] = << >>
    /\ Infected(nodes) = {patient_zero}
    /\ \E n \in DOMAIN nodes : neighbors[n] # << >>
    /\ draw_log = << >>

\* C11  Configuration mismatch is fatal: when the configured node count
\* differs from the number of node specifications, generate_nodes raises its
\* error with no node created and the random stream where the seed left
\* it, and the run never chooses a patient zero nor runs a tick; when the
\* two counts are equal no such error is raised.
C11_ConfigMismatchFatal ==
    /\ (config.spec_count # config.node_count /\ pc \notin {"unseeded", "start"})
        => /\ pc = "failed"
           /\ placement = MismatchError
           /\ nodes = << >>
           /\ rng = InitialStream(config.seed, config.entropy[1])
           /\ patient_zero = -1
           /\ ticks = 0
    /\ config.spec_count = config.node_count
        => (pc # "failed" /\ ~ placement.error)

C11_Witness ==
    /\ pc = "failed"
    /\ other.pc = "failed"
    /\ config.node_count = NODE_COUNT + 1

Placed == pc \in {"placed", "built", "running"}

\* the jittered points kept for specification idx and its table entry
PointsOf(idx) == draw_log[idx + 1].points
SpecOf(idx) == SCENARIO_NODE_SPECS[idx + 1]
OnLand(point) == is_land(config.land, point.lon, point.lat)

\* C12  Placement is bounded and total: in every world, for every
\* specification generate_nodes draws between 1 and 40 jittered points,
\* every point before the last is rejected by the land oracle, the node is
\* placed at the last point when the oracle accepts it and otherwise 40
\* points were drawn and the node is at the unjittered anchor; the call
\* can always be taken and returns exactly one node per specification.
C12_PlacementBoundedTotal ==
    /\ pc = "start" => ENABLED LoggedGenerateNodes
    /\ Placed =>
        /\ DOMAIN nodes = 0 .. config.spec_count - 1
        /\ Len(draw_log) = config.spec_count
        /\ \A idx \in DOMAIN nodes :
             LET points == PointsOf(idx)
                 last == points[Len(points)]
             IN  /\ Len(points) \in 1 .. PLACEMENT_ATTEMPTS
                 /\ placement.tries[idx] = Len(points)
                 /\ \A k \in 1 .. Len(points) - 1 : ~ OnLand(points[k])
                 /\ IF OnLand(last)
                    THEN /\ nodes[idx].latitude = last.lat
                         /\ nodes[idx].longitude = last.lon
                    ELSE /\ Len(points) = PLACEMENT_ATTEMPTS
                         /\ nodes[idx].latitude = SpecOf(idx).latitude
                         /\ nodes[idx].longitude = SpecOf(idx).longitude
                 /\ << nodes[idx].x, nodes[idx].y >> =
                        to_screen(MakeProjection(config.image),
                                  nodes[idx].longitude, nodes[idx].latitude)

C12_Witness ==
    /\ pc = "placed"
    /\ config.land = "stripes"
    /\ config.spec_count >= 7
    /\ \E idx \in DOMAIN nodes : Len(PointsOf(idx)) \in 2 .. PLACEMENT_ATTEMPTS - 1
    /\ \E idx \in DOMAIN nodes : /\ Len(PointsOf(idx)) = PLACEMENT_ATTEMPTS
                                   /\ nodes[idx].latitude = SpecOf(idx).latitude

\* every jittered point drawn for specification idx was rejected, so the
\* node is at the unjittered anchor
FellBack(idx) == ~ OnLand(PointsOf(idx)[Len(PointsOf(idx))])
AnchorOnLand(idx) ==
    is_land(config.land, SpecOf(idx).longitude, SpecOf(idx).latitude)

\* C13 as claimed: whenever none of the jittered points of a specification
\* is on land and the anchor is used, a line is printed for it.
C13_EveryFallbackFlagged ==
    Placed => \A idx \in DOMAIN nodes :
                FellBack(idx) => idx \in SeqToSet(placement.flagged)

\* C13  Placement degradation, amended: a line is printed for a
\* specification exactly when none of its jittered points is on land and
\* its anchor is not on land either (no line when the anchor is on land);
\* the lines come in specification order, and the call goes on to place
\* every remaining specification without raising an error.
C13_DegradationFlagged ==
    Placed =>
        /\ \A idx \in DOMAIN nodes :
             idx \in SeqToSet(placement.flagged)
                <=> (FellBack(idx) /\ ~ AnchorOnLand(idx))
        /\ \A i, j \in 1 .. Len(placement.flagged) :
             i < j => placement.flagged[i] < placement.flagged[j]
        /\ ~ placement.error
        /\ DOMAIN nodes = 0 .. config.spec_count - 1

C13_Witness ==
    /\ pc = "placed"
    /\ config.land = "coast"
    /\ \E idx \in DOMAIN nodes : FellBack(idx) /\ AnchorOnLand(idx)
    /\ \E idx \in SeqToSet(placement.flagged) : idx + 1 \in DOMAIN nodes

\* C14  Node ids are dense, zero-based and stable: once generate_nodes has
\* returned, the node list is indexed 0 .. N-1 in specification order and
\* the node at index i has id i, in both runs; and no later step (tick or
\* mouse click) changes the number of nodes or the id at any index.
C14_DenseStableIds ==
    /\ [] ( /\ pc \in {"placed", "built", "running"}
               => /\ DOMAIN nodes = 0 .. config.spec_count - 1
                  /\ \A i \in DOMAIN nodes :
                       /\ nodes[i].id = i
                       /\ nodes[i].device_type = SCENARIO_NODE_SPECS[i + 1].device_type
            /\ other.pc \in {"placed", "built", "running"}
               => /\ DOMAIN other.nodes = 0 .. config.spec_count - 1
                  /\ \A i \in DOMAIN other.nodes : other.nodes[i].id = i )
    /\ [][ /\ pc \in {"placed", "built", "running"}
              => /\ DOMAIN nodes' = DOMAIN nodes
                 /\ \A i \in DOMAIN nodes : nodes'[i].id = nodes[i].id
           /\ other.pc \in {"placed", "built", "running"}
              => /\ DOMAIN other'.nodes = DOMAIN other.nodes
                 /\ \A i \in DOMAIN other.nodes :
                      other'.nodes[i].id = other.nodes[i].id ]_vars

C14_Witness ==
    /\ pc = "running"
    /\ ticks >= 1
    /\ ui.upgrade_state["awareness"]
    /\ Cardinality(DOMAIN nodes) = NODE_COUNT
    /\ nodes[NODE_COUNT - 1].id = NODE_COUNT - 1

\* C15  Per-node state machine: in every reachable state every node is
\* secure or infected (never vulnerable), and the only change a step makes
\* to the state of a node is from secure to infected.
C15_NodeStateMachine ==
    /\ [] ( \A n \in DOMAIN nodes : nodes[n].state \in {"secure", "infected"} )
    /\ [][ (pc \in {"placed", "built", "running"})
              => \A n \in DOMAIN nodes :
                   nodes'[n].state # nodes[n].state
                     => (nodes[n].state = "secure" /\ nodes'[n].state = "infected") ]_vars

C15_Witness ==
    /\ pc = "running"
    /\ ticks = 2
    /\ Cardinality(Infected(nodes)) = 3
    /\ \E n \in DOMAIN nodes : nodes[n].state = "secure"

StateVector(node_list) == [ n \in DOMAIN node_list |-> node_list[n].state ]

\* what a run holds of the simulation, and of the menu and upgrade tree
SimulationOf(run) ==
    << run.nodes, run.connections, run.neighbors, run.patient_zero, run.ticks, run.rng >>

\* C16  Menu and upgrades do not interfere with the simulation: a mouse
\* click (a step of a running run that is not a tick) changes no node
\* field, no neighbour list and no position of the random stream; a tick
\* changes neither the upgrade state, the upgrade points nor the active
\* panel; and two runs from the same seed with different clicks between
\* their ticks have the same node-state vector after the same number of
\* ticks.
C16_UiNonInterference ==
    /\ [][ /\ (pc = "running" /\ ticks' = ticks)
              => SimulationOf(FirstRun)' = SimulationOf(FirstRun)
           /\ (other.pc = "running" /\ other'.ticks = other.ticks)
              => SimulationOf(other)' = SimulationOf(other)
           /\ (pc = "running" /\ ticks' # ticks) => ui' = ui
           /\ (other.pc = "running" /\ other'.ticks # other.ticks)
              => other'.ui = other.ui ]_vars
    /\ [] ( (pc = "running" /\ other.pc = "running" /\ ticks = other.ticks)
            => StateVector(nodes) = StateVector(other.nodes) )

C16_Witness ==
    /\ pc = "running"
    /\ other.pc = "running"
    /\ ticks = MaxUiTicks
    /\ other.ticks = MaxUiTicks
    /\ Cardinality({ n \in DOMAIN nodes : nodes[n].state = "infected" }) >= 2
    /\ ui.upgrade_state["segmentation"]
    /\ ui.active_panel = "virus"
    /\ other.ui = InitialUi

\* C17  Patient zero: when the first tick starts exactly one node, the
\* patient zero, is infected and every other node is secure; from then on
\* at least one node is infected in every state.
C17_PatientZero ==
    /\ (pc = "running" /\ ticks = 0)
        => /\ Infected(nodes) = {patient_zero}
           /\ Cardinality(Infected(nodes)) = 1
           /\ \A n \in DOMAIN nodes \ {patient_zero} : nodes[n].state = "secure"
    /\ pc = "running" => Cardinality(Infected(nodes)) >= 1

C17_Witness ==
    /\ pc = "running"
    /\ ticks = 0
    /\ patient_zero = 7
    /\ nodes[7].state = "infected"

\* C18  Frame of a tick: a tick leaves the number of nodes, every field of
\* every node other than its state, the connections and every neighbour
\* list as they were, and a node whose state it changes is infected
\* afterwards.
C18_TickFrame ==
    [][ (pc = "running") =>
          /\ DOMAIN nodes' = DOMAIN nodes
          /\ \A n \in DOMAIN nodes :
               /\ [ nodes'[n] EXCEPT !.state = nodes[n].state ] = nodes[n]
               /\ nodes'[n].state # nodes[n].state => nodes'[n].state = "infected"
          /\ neighbors' = neighbors
          /\ connections' = connections ]_vars

C18_Witness ==
    /\ pc = "running"
    /\ ticks = 1
    /\ Cardinality(Infected(nodes)) = 2
    /\ patient_zero = 5

\* every order in which the members of a set can be processed
ProcessingOrders(S) ==
    { order \in [ 1 .. Cardinality(S) -> S ] : Injective(order) }

\* The loop of update_infections taken over the drawing sources in a given
\* order, from position i of the order on, with the pending buffer: each
\* source reads the states of the tick's start.
RECURSIVE PendingInOrder(_, _, _, _, _)
PendingInOrder(node_list, neighbor_lists, order, i, stream) ==
    IF i > Len(order) THEN { {} }
    ELSE { marked \cup later :
             marked \in SourceMarks(node_list, neighbor_lists, order[i], stream),
             later \in PendingInOrder(node_list, neighbor_lists, order, i + 1, stream) }

\* The single simultaneous update: what one node infected at the start can
\* hit, having picked min(deg, K) distinct neighbours, each picked target
\* not infected at the start being hit or missed.
SimultaneousHits(node_list, neighbor_lists, source) ==
    LET around == SeqToSet(neighbor_lists[source])
        picked == Min(Cardinality(around), MAX_INFECTION_ATTEMPTS)
    IN  UNION { SUBSET (picks \ Infected(node_list)) :
                  picks \in { p \in SUBSET around : Cardinality(p) = picked } }

RECURSIVE SimultaneousSets(_, _, _)
SimultaneousSets(node_list, neighbor_lists, sources) ==
    IF sources = {} THEN { {} }
    ELSE LET source == CHOOSE m \in sources : TRUE
         IN  { hits \cup rest :
                 hits \in SimultaneousHits(node_list, neighbor_lists, source),
                 rest \in SimultaneousSets(node_list, neighbor_lists, sources \ {source}) }

\* the node states after a tick that hits the nodes of a set
StatesAfter(node_list, hits) ==
    [ n \in DOMAIN node_list |->
        IF n \in hits THEN "infected" ELSE node_list[n].state ]

\* C19  Simultaneous-update equivalence: in every running state, the set
\* of node-state vectors a tick can leave is the same for every order in
\* which the infected sources are processed with the pending buffer, it is
\* the set the program's tick can leave, and it equals the set left by a
\* single simultaneous update where every node infected at the start picks
\* min(deg, K) distinct neighbours and each picked target not infected at
\* the start is independently hit or missed.
C19_SimultaneousUpdate ==
    pc = "running" =>
        LET after_tick ==
                { StateVector(CommitInfections(nodes, pending)) :
                    pending \in PendingSets(nodes, neighbors, config) }
            simultaneous ==
                { StatesAfter(nodes, hits) :
                    hits \in SimultaneousSets(nodes, neighbors, Infected(nodes)) }
        IN  /\ after_tick = simultaneous
            /\ \A order \in ProcessingOrders(DrawingSources(nodes, neighbors)) :
                 { StateVector(CommitInfections(nodes, pending)) :
                     pending \in PendingInOrder(nodes, neighbors, order, 1, config) }
                 = simultaneous

\* two sources infected at the start, one with more neighbours than it can
\* pick and a secure node among them
C19_Witness ==
    /\ pc = "running"
    /\ ticks = 1
    /\ Cardinality(DrawingSources(nodes, neighbors)) = 2
    /\ \E a \in Infected(nodes) : Len(neighbors[a]) > MAX_INFECTION_ATTEMPTS
    /\ \E c \in DOMAIN nodes \ Infected(nodes) :
         \E a \in Infected(nodes) : c \in SeqToSet(neighbors[a])

\* the members of a sample that are secure in a node list, in sample order
SecureOf(node_list, sample) ==
    LET Secure(target) == node_list[target].state = "secure"
    IN  SelectSeq(sample, Secure)

\* C20  Random-stream consumption order within a tick: the draws of a tick
\* are made source by source in ascending id order over exactly the nodes
\* infected at its start that have neighbours; each such source makes one
\* sampling draw of min(deg, K) neighbours and then one uniform trial per
\* sampled target that was secure at the start, in sample order; no trial
\* is drawn for a target already infected at the start, and no draw is made
\* for any other node.
C20_ConsumptionOrder ==
    [][ (pc = "running") =>
          LET sources == sorted(DrawingSources(nodes, neighbors))
          IN  /\ Len(draw_log') = Len(sources)
              /\ \A i \in 1 .. Len(sources) :
                   LET entry == draw_log'[i]
                   IN  /\ entry.source = sources[i]
                       /\ Len(entry.sample)
                            = Min(Len(neighbors[sources[i]]), MAX_INFECTION_ATTEMPTS)
                       /\ entry.targets = entry.sample
                       /\ entry.trials = SecureOf(nodes, entry.sample)
                       /\ \A j \in 1 .. Len(entry.sample) :
                            nodes[entry.sample[j]].state = "infected"
                              => entry.sample[j] \notin SeqToSet(entry.trials) ]_vars

\* a tick has drawn for two sources: one that sampled an infected target
\* and drew no trial for it, one that drew several trials
C20_Witness ==
    /\ pc = "running"
    /\ Len(draw_log) >= 2
    /\ draw_log[1].source < draw_log[2].source
    /\ \E i \in 1 .. Len(draw_log) : Len(draw_log[i].trials) < Len(draw_log[i].sample)
    /\ \E i \in 1 .. Len(draw_log) : Len(draw_log[i].trials) >= 2

\* newly_infected as the log of a tick holds it: the hits of its entries,
\* in the order they were appended
RECURSIVE MarksOf(_, _)
MarksOf(log, i) ==
    IF i > Len(log) THEN << >> ELSE log[i].hits \o MarksOf(log, i + 1)

\* C21  Deduplicated, idempotent commit: the node list a tick leaves is the
\* one it started with, with every node that was marked at least once set
\* to infected (however many sources marked it); the infected count grows
\* by the number of distinct marked nodes; and the commit comes after the
\* scan: every source draws its trials for the targets secure at the start
\* of the tick, also those an earlier source has already marked, and every
\* marked node was secure at the start.
C21_DeduplicatedCommit ==
    [][ (pc = "running") =>
          LET marks == MarksOf(draw_log', 1)
              pending == SeqToSet(marks)
          IN  /\ nodes' = [ n \in DOMAIN nodes |->
                              IF n \in pending
                              THEN [ nodes[n] EXCEPT !.state = "infected" ]
                              ELSE nodes[n] ]
              /\ Cardinality(Infected(nodes'))
                   = Cardinality(Infected(nodes)) + Cardinality(pending)
              /\ CommitInfections(nodes', pending) = nodes'
              /\ \A n \in pending : nodes[n].state = "secure"
              /\ \A i \in 1 .. Len(draw_log') :
                   draw_log'[i].trials = SecureOf(nodes, draw_log'[i].sample) ]_vars

\* two sources have marked the same node in one tick
C21_Witness ==
    /\ pc = "running"
    /\ \E i, j \in 1 .. Len(draw_log) :
         /\ i < j
         /\ \E n \in SeqToSet(draw_log[i].hits) :
              /\ n \in SeqToSet(draw_log[j].hits)
              /\ nodes[n].state = "infected"

\* min(0.95, 0.05 + bonus + 0.4 * max(0, 1 - distance / R)), in units of
\* 1 / (100 * Radius)
ClaimedChance(a, b, distance) ==
    LET near == IF Radius - distance > 0 THEN Radius - distance ELSE 0
        sum == 5 * Radius + ClaimedBonus(a, b) * Radius + 40 * near
    IN  IF sum < 95 * Radius THEN sum ELSE 95 * Radius

\* C22  Probability formula: for every pair of device types and every
\* distance, infection_probability returns
\* min(0.95, 0.05 + bonus + 0.4 * max(0, 1 - distance / R)), the bonus being
\* 0.12 for equal types, 0.05 for different types of the same class
\* ({phone, iot} or {computer, server}) and 0 otherwise.
C22_ProbabilityFormula ==
    probe.phase \in {"called", "moved", "swapped"}
    => probe.chance = ClaimedChance(probe.source, probe.target, probe.distance)

C22_Witness ==
    /\ probe.phase = "called"
    /\ probe.source = "phone"
    /\ probe.target = "iot"
    /\ probe.distance * 2 = Radius
    /\ probe.chance = 30 * Radius

\* the edge list holds an edge between a and b, in either direction
Joined(a, b) ==
    \E i \in 1 .. Len(connections) :
        \/ (connections[i].source = a /\ connections[i].target = b)
        \/ (connections[i].source = b /\ connections[i].target = a)

\* C23  Static adjacency is exactly the edge list: for every edge list over
\* valid node ids, b is in the neighbour list of a exactly when the list
\* holds an edge (a, b) or (b, a), and a node without incident edge has an
\* empty neighbour list; this stays so in every state reached by ticks.
C23_AdjacencyIsEdgeList ==
    pc \in {"built", "running"}
    => /\ DOMAIN neighbors = DOMAIN nodes
       /\ \A a, b \in DOMAIN nodes : (b \in SeqToSet(neighbors[a])) <=> Joined(a, b)
       /\ \A a \in DOMAIN nodes :
            (\A b \in DOMAIN nodes : ~Joined(a, b)) => neighbors[a] = << >>

C23_Witness ==
    /\ pc = "built"
    /\ Len(connections) >= 2
    /\ \E a, b \in DOMAIN nodes :
         /\ neighbors[a] = << >>
         /\ neighbors[b] = << b >>

\* the nodes at most hops steps of the neighbour graph away from a node
RECURSIVE WithinHops(_, _)
WithinHops(from, hops) ==
    IF hops = 0 THEN {from}
    ELSE LET nearer == WithinHops(from, hops - 1)
         IN  nearer \cup UNION { SeqToSet(neighbors[n]) : n \in nearer }

\* the nodes of a set that a node reaches along neighbours inside the set,
\* in at most steps steps
RECURSIVE ReachedInside(_, _, _)
ReachedInside(inside, from, steps) ==
    IF steps = 0 THEN {from} \cap inside
    ELSE LET nearer == ReachedInside(inside, from, steps - 1)
         IN  nearer \cup (inside \cap UNION { SeqToSet(neighbors[n]) : n \in nearer })

\* C24  Hop-distance bound: after t ticks (for every t the tick counter
\* counts exactly) every infected node is at graph distance at most t from
\* patient zero, and in every running state the infected nodes induce a
\* connected subgraph of the neighbour graph that contains patient zero.
C24_HopDistanceBound ==
    pc = "running"
    => /\ patient_zero \in Infected(nodes)
       /\ ticks < config.max_ticks => Infected(nodes) \subseteq WithinHops(patient_zero, ticks)
       /\ Infected(nodes)
            = ReachedInside(Infected(nodes), patient_zero, Cardinality(DOMAIN nodes))

\* after two ticks a node two hops from patient zero, and not nearer, is
\* infected
C24_Witness ==
    /\ pc = "running"
    /\ ticks = 2
    /\ \E n \in Infected(nodes) :
         /\ n \notin WithinHops(patient_zero, 1)
         /\ n \in WithinHops(patient_zero, 2)

AllInfected == \A n \in DOMAIN nodes : nodes[n].state = "infected"

\* C25  Eventual saturation: on the scenario graph, for every patient zero
\* and under fair draws, a running simulation eventually reaches the state
\* in which all nodes are infected, and once all nodes are infected no
\* step changes the state of a node.  The draws are fair in that a tick
\* hitting just one node is taken if it stays possible; it is possible for
\* every secure node with an infected neighbour (every chance is positive).
C25_EventualSaturation ==
    /\ (pc = "running") ~> (pc = "running" /\ AllInfected)
    /\ [][ (pc = "running" /\ AllInfected) => nodes' = nodes ]_vars
    /\ [] ( pc = "running" =>
              \A n \in Exposed(nodes, neighbors) :
                  {n} \in PendingSets(nodes, neighbors, config) )

C25_Witness ==
    /\ pc = "running"
    /\ ticks >= 1
    /\ AllInfected
    /\ Cardinality(DOMAIN nodes) = NODE_COUNT
    /\ patient_zero = 3

\* the entries of the upgrade tree that are purchased
Purchased(u) == { i \in 1 .. Len(UPGRADE_TREE) : u.upgrade_state[UPGRADE_TREE[i].id] }

RECURSIVE TotalCost(_)
TotalCost(entries) ==
    IF entries = {} THEN 0
    ELSE LET i == CHOOSE e \in entries : TRUE
         IN  UPGRADE_TREE[i].cost + TotalCost(entries \ {i})

\* the menu and upgrade state of each run that has reached its event loop
LoopUis ==
    (IF pc = "running" THEN {ui} ELSE {})
    \cup (IF other.pc = "running" THEN {other.ui} ELSE {})

\* a click on an upgrade of the open upgrades panel that is turned down
Rejected(u, pos) ==
    /\ ButtonUnder(pos) = 0
    /\ u.active_panel = "upgrades"
    /\ collidepoint(panel_rect, pos)
    /\ get_upgrade_under_point(pos) # 0
    /\ LET node == UPGRADE_TREE[get_upgrade_under_point(pos)]
       IN  \/ u.upgrade_state[node.id]
           \/ u.upgrade_points < node.cost
           \/ \E req \in node.prerequisites : ~ u.upgrade_state[req]

\* C26  Upgrade points conservation: after any sequence of clicks the
\* points are not negative and points plus the cost of the purchased
\* upgrades is the starting 10; a step never un-purchases an upgrade,
\* purchases at most one, and charges exactly its cost, so each upgrade is
\* charged at most once; a rejected purchase changes neither upgrade state
\* nor points.
C26_PointsConservation ==
    /\ [] ( \A u \in LoopUis :
              /\ u.upgrade_points >= 0
              /\ u.upgrade_points + TotalCost(Purchased(u)) = 10
              /\ \A pos \in ClickPoints :
                   Rejected(u, pos) => HandleClick(u, pos) = u )
    /\ [][ (pc = "running") =>
              /\ Purchased(ui) \subseteq Purchased(ui')
              /\ Cardinality(Purchased(ui') \ Purchased(ui)) <= 1
              /\ ui.upgrade_points - ui'.upgrade_points
                   = TotalCost(Purchased(ui') \ Purchased(ui)) ]_vars

C26_Witness ==
    /\ pc = "running"
    /\ ui.upgrade_points = 6
    /\ ui.active_panel = "upgrades"
    /\ Purchased(ui) = {1, 2, 3}
    /\ Rejected(ui, UpgradeCenter(3))
    /\ Rejected(ui, UpgradeCenter(6))

\* C27  Prerequisite closure: in every reachable state every purchased
\* upgrade has all its prerequisites purchased, and a step that purchases
\* an upgrade starts in a state where all its prerequisites are purchased.
C27_PrerequisiteClosure ==
    /\ [] ( \A u \in LoopUis :
              \A i \in Purchased(u) :
                \A req \in UPGRADE_TREE[i].prerequisites : u.upgrade_state[req] )
    /\ [][ (pc = "running") =>
              \A i \in Purchased(ui') \ Purchased(ui) :
                \A req \in UPGRADE_TREE[i].prerequisites : ui.upgrade_state[req] ]_vars

C27_Witness ==
    /\ pc = "running"
    /\ ui.upgrade_state["threat_hunting"]
    /\ ui.upgrade_state["segmentation"]
    /\ ~ ui.upgrade_state["deception"]

\* C28  Unreachable final upgrade: in every reachable state the upgrade
\* 'resilience' is not purchased and the upgrade points are at least 2.
C28_ResilienceUnreachable ==
    \A u \in LoopUis :
        /\ ~ u.upgrade_state["resilience"]
        /\ u.upgrade_points >= 2

\* everything before resilience is purchased, and a click on it is
\* turned down
C28_Witness ==
    /\ pc = "running"
    /\ ui.active_panel = "upgrades"
    /\ Purchased(ui) = {1, 2, 3, 4, 5}
    /\ ui.upgrade_points = 2
    /\ Rejected(ui, UpgradeCenter(6))

\* C29  Panel gating of purchases: from every reachable state, a left
\* click changes upgrade state or points only if it hits no menu button
\* and the active panel is 'upgrades' (and stays so); a left click on a
\* menu button changes nothing but the active panel, which becomes none if
\* it was that button's panel and that button's panel otherwise; the
\* active panel is a single value, none or one panel; and every step that
\* changes upgrade state or points starts with the panel 'upgrades' open
\* and leaves it open.
C29_PanelGating ==
    /\ [] ( \A u \in LoopUis :
              /\ u.active_panel \in {"none"} \cup SeqToSet(MenuKeys)
              /\ \A pos \in ClickPoints :
                   LET after == HandleClick(u, pos)
                       button == ButtonUnder(pos)
                   IN  /\ button # 0 =>
                            after = [ u EXCEPT !.active_panel =
                                        IF u.active_panel = MenuKeys[button]
                                        THEN "none" ELSE MenuKeys[button] ]
                       /\ ( \/ after.upgrade_state # u.upgrade_state
                            \/ after.upgrade_points # u.upgrade_points )
                          => /\ button = 0
                             /\ u.active_panel = "upgrades"
                             /\ after.active_panel = "upgrades" )
    /\ [][ (pc = "running") =>
              ( ( \/ ui'.upgrade_state # ui.upgrade_state
                  \/ ui'.upgrade_points # ui.upgrade_points )
                => (ui.active_panel = "upgrades" /\ ui'.active_panel = "upgrades") ) ]_vars

\* an upgrade is purchased and the panel has since been switched
C29_Witness ==
    /\ pc = "running"
    /\ ui.active_panel = "virus"
    /\ Purchased(ui) = {2}
    /\ ui.upgrade_points = 9
    /\ HandleClick(ui, UpgradeCenter(1)) = ui

=============================================================================
